---- MODULE Spec2Model ----
(***************************************************************************)
(* Voxel GI pipeline of bevy-hikari (src/src/voxel.rs).                    *)
(*                                                                         *)
(* Four specifications share this module:                                  *)
(*   Spec      volume creation and the add_volume_views system             *)
(*   SpecVis   the check_visibility system over a small scene              *)
(*   SpecFrame one render frame after another: queue systems and the three *)
(*             render-graph nodes (clear, voxelize, mipmap)                *)
(*   SpecGraph the "hikari" sub-graph of src/src/lib.rs and its executions *)
(*                                                                         *)
(* Numbers: world coordinates are f32 in the source.  The model keeps them *)
(* in fixed point with one fractional bit (the stored integer is twice the *)
(* world value), so that the divisions by 2.0 of add_volume_views are      *)
(* exact, as they are in f32 for the small integers used here.             *)
(***************************************************************************)
EXTENDS Integers, Sequences, FiniteSets, TLC

\* ------------------------------------------------------------------------
\* Bounds of the model
\* ------------------------------------------------------------------------
MaxVolumes == 2
MaxViewPasses == 2
MaxSceneEntities == 2
MaxSceneViews == 2
MaxChanges == 2
MaxRenderVolumes == 2
MaxExecutions == 3

\* ------------------------------------------------------------------------
\* State
\* ------------------------------------------------------------------------
VARIABLES
    volumes,        \* main world: sequence of Volume components, in query order
    view_world,     \* main world: view entity id -> its spawned bundle
    next_entity,    \* Entities allocator: the next fresh entity id
    view_passes,    \* number of add_volume_views passes run so far
    scene_entities, \* check_visibility: entity id -> the components the queries read
    scene_views,    \* check_visibility: VolumeView entity -> RenderLayers, VisibleEntities
    vis_changes,    \* number of component changes the application has made
    vis_fresh,      \* TRUE when check_visibility was the last thing to run
    render_volumes, \* render world: sequence of extracted Volume components
    view_entity,    \* the entity on the render graph's view slot (0: a view without Volume)
    gi_enabled,     \* GiConfig.enabled in the render world
    resident,       \* the assets present in RenderAssets<M> and RenderAssets<Mesh>
    visible,        \* view entity -> extracted VisibleEntities
    phases,         \* view entity -> items of its RenderPhase<Voxel>
    mipmap_bind_groups, \* volume -> Option<MipmapBindGroup>
    cmds,           \* the commands encoded by the graph nodes in this frame
    gpu,            \* volume -> resource -> when its contents were last written
    ran,            \* the nodes whose run() went past the GiConfig test in this frame
    queue_done,     \* the Queue-stage systems that have run in this frame
    pc,             \* position in the frame
    hikari_graph,   \* the "hikari" sub-graph of the RenderGraph, None until the plugin is built
    node_queue,     \* graph runner: the VecDeque of nodes to handle (front first)
    node_outputs,   \* graph runner: finished node -> the slot value it handled
    executions,     \* number of executions of the sub-graph started so far
    prepass_output, \* the execution in which PrepassNode last wrote its output (0: never)
    samples,        \* one record per run of the main pass: the output it found
    graph_pc        \* "unbuilt", "idle" or "running"

viewVars == <<volumes, view_world, next_entity, view_passes>>

visVars == <<scene_entities, scene_views, vis_changes, vis_fresh>>

frameVars == <<render_volumes, view_entity, gi_enabled, resident, visible, phases,
               mipmap_bind_groups, cmds, gpu, ran, queue_done, pc>>

graphVars == <<hikari_graph, node_queue, node_outputs, executions, prepass_output,
               samples, graph_pc>>

vars == <<viewVars, visVars, frameVars, graphVars>>

\* ------------------------------------------------------------------------
\* Vec3 arithmetic (glam), on fixed-point triples
\* ------------------------------------------------------------------------
Fixed(c) == 2 * c

Vec3(x, y, z) == <<x, y, z>>

Vec3Add(a, b) == <<a[1] + b[1], a[2] + b[2], a[3] + b[3]>>

Vec3Sub(a, b) == <<a[1] - b[1], a[2] - b[2], a[3] - b[3]>>

\* v / 2.0: every component of a sum or difference of stored coordinates is
\* a multiple of 2, so the quotient is exact.
Vec3Half(v) == <<v[1] \div 2, v[2] \div 2, v[3] \div 2>>

Vec3Zero == <<0, 0, 0>>

\* ------------------------------------------------------------------------
\* Rotations.  A Quat is kept as the rotation matrix it denotes, given by
\* the images of the local X, Y and Z axes (its columns).
\* ------------------------------------------------------------------------
QuatIdentity == << <<1, 0, 0>>, <<0, 1, 0>>, <<0, 0, 1>> >>

\* Quat::from_rotation_y(FRAC_PI_2): X -> -Z, Z -> X
QuatFromRotationY == << <<0, 0, -1>>, <<0, 1, 0>>, <<1, 0, 0>> >>

\* Quat::from_rotation_x(FRAC_PI_2): Y -> Z, Z -> -Y
QuatFromRotationX == << <<1, 0, 0>>, <<0, 0, 1>>, <<0, -1, 0>> >>

\* rotation * v
QuatMulVec3(q, v) ==
    << q[1][1] * v[1] + q[2][1] * v[2] + q[3][1] * v[3],
       q[1][2] * v[1] + q[2][2] * v[2] + q[3][2] * v[3],
       q[1][3] * v[1] + q[2][3] * v[2] + q[3][3] * v[3] >>

\* a * b: the rotation that applies b, then a
QuatMul(a, b) == << QuatMulVec3(a, b[1]), QuatMulVec3(a, b[2]), QuatMulVec3(a, b[3]) >>

GlobalTransformFromTranslation(t) == [translation |-> t, rotation |-> QuatIdentity]

GlobalTransformFromRotation(q) == [translation |-> Vec3Zero, rotation |-> q]

\* GlobalTransform * GlobalTransform (scale is 1 throughout)
GlobalTransformMul(a, b) ==
    [translation |-> Vec3Add(a.translation, QuatMulVec3(a.rotation, b.translation)),
     rotation |-> QuatMul(a.rotation, b.rotation)]

\* The three rotations of add_volume_views, in loop order
ViewRotations == <<QuatIdentity, QuatFromRotationY, QuatFromRotationX>>

\* ------------------------------------------------------------------------
\* add_volume_views
\* ------------------------------------------------------------------------
VolumeCenter(volume) == Vec3Half(Vec3Add(volume.max, volume.min))

VolumeExtend(volume) == Vec3Half(Vec3Sub(volume.max, volume.min))

ViewTransform(center, rotation) ==
    GlobalTransformMul(GlobalTransformFromTranslation(center),
                       GlobalTransformFromRotation(rotation))

ViewProjection_SwappedXY(extend) ==
    [left |-> -extend[2], right |-> extend[2],
     bottom |-> -extend[1], top |-> extend[1],
     near |-> -extend[3], far |-> extend[3]]

ViewProjection(extend) ==
    [left |-> -extend[1], right |-> extend[1],
     bottom |-> -extend[2], top |-> extend[2],
     near |-> -extend[3], far |-> extend[3]]

\* the bundle spawned for rotation number k of a volume
ViewBundle(volume, k) ==
    [transform |-> ViewTransform(VolumeCenter(volume), ViewRotations[k]),
     projection |-> ViewProjection(VolumeExtend(volume))]

NeedsViews_Always(volume) == TRUE

\* the guard of the loop body: `if !volume.views.is_empty() { continue; }`
NeedsViews(volume) == Len(volume.views) = 0

\* number of volumes before position i that get views in this pass
RECURSIVE EmptyBefore(_, _)
EmptyBefore(vols, i) ==
    IF i <= 1 THEN 0
    ELSE EmptyBefore(vols, i - 1) + (IF NeedsViews(vols[i - 1]) THEN 1 ELSE 0)

NewViewIds_SamePerVolume(vols, first, i) == [k \in 1..3 |-> first + (k - 1)]

\* the ids commands.spawn_bundle(..).id() hands out to volume i in this pass
NewViewIds(vols, first, i) ==
    [k \in 1..3 |-> first + 3 * EmptyBefore(vols, i) + (k - 1)]

VolumesAfterPass(vols, first) ==
    [i \in 1..Len(vols) |->
        IF NeedsViews(vols[i])
        THEN [vols[i] EXCEPT !.views = vols[i].views \o NewViewIds(vols, first, i)]
        ELSE vols[i]]

SpawnedInPass(vols, first) ==
    { <<NewViewIds(vols, first, i)[k], ViewBundle(vols[i], k)>> :
        i \in { j \in 1..Len(vols) : NeedsViews(vols[j]) }, k \in 1..3 }

AddVolumeViews ==
    /\ view_passes < MaxViewPasses
    /\ LET spawned == SpawnedInPass(volumes, next_entity)
           ids == { s[1] : s \in spawned }
       IN /\ volumes' = VolumesAfterPass(volumes, next_entity)
          /\ view_world' =
                [e \in DOMAIN view_world \cup ids |->
                    IF e \in ids
                    THEN (CHOOSE s \in spawned : s[1] = e)[2]
                    ELSE view_world[e]]
          /\ next_entity' = next_entity + Cardinality(ids)
    /\ view_passes' = view_passes + 1
    /\ UNCHANGED <<visVars, frameVars, graphVars>>

\* ------------------------------------------------------------------------
\* The application spawns a Volume (min, max, no views yet)
\* ------------------------------------------------------------------------
VolumeMins == { Vec3(Fixed(0), Fixed(0), Fixed(0)), Vec3(Fixed(-1), Fixed(-2), Fixed(0)) }

VolumeMaxs == { Vec3(Fixed(x), Fixed(y), Fixed(z)) : x, y, z \in {1, 2} }

SpawnVolume ==
    /\ Len(volumes) < MaxVolumes
    /\ \E min \in VolumeMins, max \in VolumeMaxs :
          volumes' = Append(volumes,
                            [entity |-> next_entity, min |-> min, max |-> max, views |-> <<>>])
    /\ next_entity' = next_entity + 1
    /\ UNCHANGED <<view_world, view_passes>>
    /\ UNCHANGED <<visVars, frameVars, graphVars>>

\* ------------------------------------------------------------------------
\* check_visibility
\*
\* An Option<T> is the empty sequence (None) or a one-element sequence
\* (Some).  A RenderLayers mask is the set of layers whose bit is set.
\* ------------------------------------------------------------------------
Layers == {0, 1}

None == <<>>

Some(x) == <<x>>

OptionMasks == {None} \cup { Some(m) : m \in SUBSET Layers }

SceneEntityIds == 1..MaxSceneEntities

SceneViewIds == 1..MaxSceneViews

RenderLayersDefault_All == Layers

\* RenderLayers::default(): layer 0 only
RenderLayersDefault == {0}

\* maybe_mask.copied().unwrap_or_default()
UnwrapOrDefault(maybe_mask) ==
    IF maybe_mask = None THEN RenderLayersDefault ELSE maybe_mask[1]

\* RenderLayers::intersects
Intersects(a, b) == a \cap b # {}

InQueryP1_NoFilter(ent) == ent.visibility # "absent"

\* the entities of query p1: (&Visibility, &mut ComputedVisibility, ..)
\* Without<NotGiCaster>
InQueryP1(ent) == ent.visibility # "absent" /\ ~ent.not_gi_caster

VisibilityCheck_Skipped(ent) == TRUE

\* `if !visibility.is_visible { continue; }`
VisibilityCheck(ent) == ent.visibility = "visible"

\* `if !view_mask.intersects(&entity_mask) { continue; }`
LayerCheck(view, ent) ==
    Intersects(UnwrapOrDefault(view.layers), UnwrapOrDefault(ent.layers))

FrustumCheck_WithoutBoundsCulled(view_id, ent) == view_id \in ent.in_frustum

\* `if let (Some(aabb), Some(transform)) = .. { if !frustum.intersects_obb(..) { continue; } }`
\* in_frustum holds the views for which intersects_obb answers true
FrustumCheck(view_id, ent) ==
    (ent.has_aabb /\ ent.has_transform) => view_id \in ent.in_frustum

PassesChecks(view_id, view, ent) ==
    /\ InQueryP1(ent)
    /\ VisibilityCheck(ent)
    /\ LayerCheck(view, ent)
    /\ FrustumCheck(view_id, ent)

\* the entities pushed to one view's list, in query order
VisibleList(ents, view_id, view) ==
    LET Keep(e) == PassesChecks(view_id, view, ents[e])
    IN SelectSeq([e \in 1..Cardinality(DOMAIN ents) |-> e], Keep)

SeqRange(q) == { q[i] : i \in 1..Len(q) }

ResetComputed_Skipped(ent) == ent

\* the first loop: computed_visibility.is_visible = false
ResetComputed(ent) == [ent EXCEPT !.computed = FALSE]

CheckVisibility ==
    /\ LET reset == [e \in DOMAIN scene_entities |-> ResetComputed(scene_entities[e])]
           lists == [v \in DOMAIN scene_views |-> VisibleList(reset, v, scene_views[v])]
       IN /\ scene_views' =
                [v \in DOMAIN scene_views |->
                    [scene_views[v] EXCEPT !.visible_entities = lists[v]]]
          /\ scene_entities' =
                [e \in DOMAIN scene_entities |->
                    IF \E v \in DOMAIN scene_views : e \in SeqRange(lists[v])
                    THEN [reset[e] EXCEPT !.computed = TRUE]
                    ELSE reset[e]]
    /\ vis_fresh' = TRUE
    /\ UNCHANGED vis_changes
    /\ UNCHANGED <<viewVars, frameVars, graphVars>>

\* ------------------------------------------------------------------------
\* The application changes the components check_visibility reads
\* ------------------------------------------------------------------------
Changed(e, field, value) == [scene_entities EXCEPT ![e][field] = value]

SetVisibility == \E e \in SceneEntityIds, v \in {"visible", "hidden", "absent"} :
    /\ vis_changes < MaxChanges
    /\ scene_entities[e].visibility # v
    /\ scene_entities' = Changed(e, "visibility", v)
    /\ vis_changes' = vis_changes + 1
    /\ vis_fresh' = FALSE
    /\ UNCHANGED <<scene_views, viewVars, frameVars, graphVars>>

SetEntityLayers == \E e \in SceneEntityIds, m \in OptionMasks :
    /\ vis_changes < MaxChanges
    /\ scene_entities[e].layers # m
    /\ scene_entities' = Changed(e, "layers", m)
    /\ vis_changes' = vis_changes + 1
    /\ vis_fresh' = FALSE
    /\ UNCHANGED <<scene_views, viewVars, frameVars, graphVars>>

SetNotGiCaster == \E e \in SceneEntityIds, b \in BOOLEAN :
    /\ vis_changes < MaxChanges
    /\ scene_entities[e].not_gi_caster # b
    /\ scene_entities' = Changed(e, "not_gi_caster", b)
    /\ vis_changes' = vis_changes + 1
    /\ vis_fresh' = FALSE
    /\ UNCHANGED <<scene_views, viewVars, frameVars, graphVars>>

SetAabb == \E e \in SceneEntityIds, b \in BOOLEAN :
    /\ vis_changes < MaxChanges
    /\ scene_entities[e].has_aabb # b
    /\ scene_entities' = Changed(e, "has_aabb", b)
    /\ vis_changes' = vis_changes + 1
    /\ vis_fresh' = FALSE
    /\ UNCHANGED <<scene_views, viewVars, frameVars, graphVars>>

SetTransform == \E e \in SceneEntityIds, b \in BOOLEAN :
    /\ vis_changes < MaxChanges
    /\ scene_entities[e].has_transform # b
    /\ scene_entities' = Changed(e, "has_transform", b)
    /\ vis_changes' = vis_changes + 1
    /\ vis_fresh' = FALSE
    /\ UNCHANGED <<scene_views, viewVars, frameVars, graphVars>>

MoveEntity == \E e \in SceneEntityIds, s \in SUBSET SceneViewIds :
    /\ vis_changes < MaxChanges
    /\ scene_entities[e].in_frustum # s
    /\ scene_entities' = Changed(e, "in_frustum", s)
    /\ vis_changes' = vis_changes + 1
    /\ vis_fresh' = FALSE
    /\ UNCHANGED <<scene_views, viewVars, frameVars, graphVars>>

SetViewLayers == \E v \in SceneViewIds, m \in OptionMasks :
    /\ vis_changes < MaxChanges
    /\ scene_views[v].layers # m
    /\ scene_views' = [scene_views EXCEPT ![v].layers = m]
    /\ vis_changes' = vis_changes + 1
    /\ vis_fresh' = FALSE
    /\ UNCHANGED scene_entities
    /\ UNCHANGED <<viewVars, frameVars, graphVars>>

\* a scene of mesh entities as their bundles spawn them (visible, no
\* RenderLayers, with Aabb and GlobalTransform, inside every view) and of
\* volume views as add_volume_views spawns them (no RenderLayers, empty list)
InitVis ==
    /\ scene_entities =
          [e \in SceneEntityIds |->
              [visibility |-> "visible", computed |-> FALSE, not_gi_caster |-> FALSE,
               layers |-> None, has_aabb |-> TRUE, has_transform |-> TRUE,
               in_frustum |-> SceneViewIds]]
    /\ scene_views = [v \in SceneViewIds |-> [layers |-> None, visible_entities |-> <<>>]]
    /\ vis_changes = 0
    /\ vis_fresh = FALSE

\* ------------------------------------------------------------------------
\* Render world: GPU resources and bind groups of one volume
\* ------------------------------------------------------------------------
VOXEL_SIZE == 256

VOXEL_ANISOTROPIC_MIPMAP_LEVEL_COUNT == 8

Directions == 0..5

MeshEntities == {1, 2}

Assets == { <<kind, e>> : kind \in {"material", "mesh"}, e \in MeshEntities }

\* VolumeBindings: the voxel texture, the voxel buffer of VolumeMeta and the
\* six anisotropic textures.  Level -1 of an anisotropic texture stands for
\* its default_view, which spans every mip level.
VoxelTexture == [kind |-> "voxel_texture", direction |-> -1, level |-> -1]

VoxelBuffer == [kind |-> "voxel_buffer", direction |-> -1, level |-> -1]

Anisotropic(direction, level) ==
    [kind |-> "anisotropic", direction |-> direction, level |-> level]

GpuResources ==
    {VoxelTexture, VoxelBuffer} \cup
    { Anisotropic(d, l) : d \in Directions, l \in 0..(VOXEL_ANISOTROPIC_MIPMAP_LEVEL_COUNT - 1) }

\* mipmap_layout: binding 0 sampled texture, 1 write-only storage texture,
\* 2 read-write storage buffer
MipmapLayoutAccess(binding) ==
    IF binding = 0 THEN "read" ELSE IF binding = 1 THEN "write" ELSE "read_write"

\* mipmap_base_layout: bindings 0..5 write-only storage textures, 6 sampled texture
MipmapBaseLayoutAccess(binding) == IF binding = 6 THEN "read" ELSE "write"

\* voxel_layout: binding 1 sampled texture, 2 read-write storage buffer
VoxelBindGroup ==
    { [binding |-> 1, resource |-> VoxelTexture, access |-> "read"],
      [binding |-> 2, resource |-> VoxelBuffer, access |-> "read_write"] }

MipmapBaseBindGroup ==
    { [binding |-> d, resource |-> Anisotropic(d, 0), access |-> MipmapBaseLayoutAccess(d)] :
        d \in Directions }
    \cup { [binding |-> 6, resource |-> VoxelTexture, access |-> MipmapBaseLayoutAccess(6)] }

MipmapLevelBindGroup_InOutSwapped(level_in, direction) ==
    { [binding |-> 0, resource |-> Anisotropic(direction, level_in + 1),
       access |-> MipmapLayoutAccess(0)],
      [binding |-> 1, resource |-> Anisotropic(direction, level_in),
       access |-> MipmapLayoutAccess(1)],
      [binding |-> 2, resource |-> VoxelBuffer, access |-> MipmapLayoutAccess(2)] }

\* the bind group made from one (textures_in, textures_out) window
MipmapLevelBindGroup(level_in, direction) ==
    { [binding |-> 0, resource |-> Anisotropic(direction, level_in),
       access |-> MipmapLayoutAccess(0)],
      [binding |-> 1, resource |-> Anisotropic(direction, level_in + 1),
       access |-> MipmapLayoutAccess(1)],
      [binding |-> 2, resource |-> VoxelBuffer, access |-> MipmapLayoutAccess(2)] }

\* tuple_windows over levels 0..LEVEL_COUNT-1, zip_eq over the six textures
MipmapLevelBindGroups ==
    [w \in 1..(VOXEL_ANISOTROPIC_MIPMAP_LEVEL_COUNT - 1) |->
        [i \in 1..6 |-> MipmapLevelBindGroup(w - 1, i - 1)]]

ClearBindGroup_SwappedTextures ==
    { [binding |-> 0, resource |-> VoxelTexture, access |-> MipmapLayoutAccess(0)],
      [binding |-> 1, resource |-> Anisotropic(0, -1), access |-> MipmapLayoutAccess(1)],
      [binding |-> 2, resource |-> VoxelBuffer, access |-> MipmapLayoutAccess(2)] }

\* the `clear` bind group: anisotropic_textures[0].default_view at binding 0,
\* voxel_texture.default_view at binding 1, the voxel buffer at binding 2
ClearBindGroup ==
    { [binding |-> 0, resource |-> Anisotropic(0, -1), access |-> MipmapLayoutAccess(0)],
      [binding |-> 1, resource |-> VoxelTexture, access |-> MipmapLayoutAccess(1)],
      [binding |-> 2, resource |-> VoxelBuffer, access |-> MipmapLayoutAccess(2)] }

MipmapBindGroup ==
    [mipmap_base |-> MipmapBaseBindGroup,
     mipmaps |-> MipmapLevelBindGroups,
     clear |-> ClearBindGroup]

\* ------------------------------------------------------------------------
\* Render world: entities
\* ------------------------------------------------------------------------
RenderVolumeIds == 1..Len(render_volumes)

\* the three view entities of the volume with entity id j
RenderViewIds(j) == [k \in 1..3 |-> 3 * (j - 1) + k]

AllRenderViews == { RenderViewIds(j)[k] : j \in RenderVolumeIds, k \in 1..3 }

\* the volume a view entity belongs to
VolumeOfView(view) == ((view - 1) \div 3) + 1

\* ------------------------------------------------------------------------
\* Commands recorded by the graph nodes
\* ------------------------------------------------------------------------
Command(node, op) ==
    [node |-> node, op |-> op, pipeline |-> "", direction |-> -1, level |-> -1,
     volume |-> 0, view |-> 0, entity |-> 0, groups |-> <<0, 0, 0>>, bind_group |-> {}]

Dispatch(node, pipeline, volume, bind_group, x, y, z) ==
    [Command(node, "dispatch") EXCEPT !.pipeline = pipeline, !.volume = volume,
                                      !.bind_group = bind_group, !.groups = <<x, y, z>>]

Max(a, b) == IF a >= b THEN a ELSE b

RECURSIVE Flatten(_)
Flatten(seqs) == IF seqs = <<>> THEN <<>> ELSE Head(seqs) \o Flatten(Tail(seqs))

\* the resources a command may write: those its bind group binds writable
WrittenBy(cmd) ==
    { entry.resource : entry \in { b \in cmd.bind_group : b.access \in {"write", "read_write"} } }

GpuAfter(g, commands) ==
    [j \in DOMAIN g |->
        [r \in GpuResources |->
            IF \E i \in 1..Len(commands) :
                  commands[i].volume = j /\ r \in WrittenBy(commands[i])
            THEN "current"
            ELSE g[j][r]]]

\* the volumes that carry a MipmapBindGroup, in query order
WithMipmapBindGroup ==
    SelectSeq([j \in RenderVolumeIds |-> j], LAMBDA j : mipmap_bind_groups[j] # None)

\* ------------------------------------------------------------------------
\* RenderStage::Extract: extract_views copies each view's VisibleEntities;
\* the render world starts the frame with empty phases and without the
\* bind-group components of the previous frame.
\* ------------------------------------------------------------------------
\* The visible lists a frame can start with: one list per view slot; volume
\* j sees the pattern shifted by j, so the views of different volumes differ.
VisiblePatterns ==
    { << <<1, 2>>, <<1, 2>>, <<1, 2>> >>,
      << <<1>>, <<2>>, <<>> >>,
      << <<2, 1>>, <<1>>, <<2>> >> }

ExtractedVisible(pattern, view) ==
    LET j == VolumeOfView(view)
        k == view - 3 * (j - 1)
    IN pattern[((k + j - 2) % 3) + 1]

Aged(g) ==
    [j \in DOMAIN g |->
        [r \in GpuResources |-> IF g[j][r] = "current" THEN "previous" ELSE g[j][r]]]

Extract ==
    /\ pc \in {"idle", "done"}
    /\ \E enabled \in BOOLEAN, input \in 0..Len(render_volumes),
          pattern \in VisiblePatterns :
          /\ gi_enabled' = enabled
          /\ view_entity' = input
          /\ visible' = [v \in AllRenderViews |-> ExtractedVisible(pattern, v)]
    /\ phases' = [v \in AllRenderViews |-> <<>>]
    /\ mipmap_bind_groups' = [j \in RenderVolumeIds |-> None]
    /\ cmds' = <<>>
    /\ ran' = {}
    /\ gpu' = Aged(gpu)
    /\ queue_done' = {}
    /\ pc' = "queue"
    /\ UNCHANGED <<render_volumes, resident>>
    /\ UNCHANGED <<viewVars, visVars, graphVars>>

\* ------------------------------------------------------------------------
\* RenderStage::Queue
\* ------------------------------------------------------------------------
AfterQueue(system) == IF queue_done \cup {system} = {"meshes", "mipmaps"} THEN "clear" ELSE "queue"

\* the test that lets queue_voxel_meshes go on: `if !config.enabled { return; }`
QueueGate == gi_enabled

VoxelItem(entity) ==
    [distance |-> 0, entity |-> entity, pipeline |-> <<"voxel", entity>>,
     draw_function |-> "DrawVoxelMesh"]

AssetsResident_MaterialOnly(entity) == <<"material", entity>> \in resident

\* the material is in RenderAssets<M> and the mesh is in RenderAssets<Mesh>
AssetsResident(entity) ==
    <<"material", entity>> \in resident /\ <<"mesh", entity>> \in resident

\* the items queue_voxel_meshes adds for one view
QueuedItems(visible_entities) ==
    LET kept == SelectSeq(visible_entities, AssetsResident)
    IN [i \in 1..Len(kept) |-> VoxelItem(kept[i])]

QueueVoxelMeshes ==
    /\ pc = "queue"
    /\ "meshes" \notin queue_done
    /\ phases' = IF QueueGate
                 THEN [v \in AllRenderViews |-> phases[v] \o QueuedItems(visible[v])]
                 ELSE phases
    /\ queue_done' = queue_done \cup {"meshes"}
    /\ pc' = AfterQueue("meshes")
    /\ UNCHANGED <<render_volumes, view_entity, gi_enabled, resident, visible,
                   mipmap_bind_groups, cmds, gpu, ran>>
    /\ UNCHANGED <<viewVars, visVars, graphVars>>

QueueMipmapBindGroups ==
    /\ pc = "queue"
    /\ "mipmaps" \notin queue_done
    /\ mipmap_bind_groups' = [j \in RenderVolumeIds |-> Some(MipmapBindGroup)]
    /\ queue_done' = queue_done \cup {"mipmaps"}
    /\ pc' = AfterQueue("mipmaps")
    /\ UNCHANGED <<render_volumes, view_entity, gi_enabled, resident, visible,
                   phases, cmds, gpu, ran>>
    /\ UNCHANGED <<viewVars, visVars, graphVars>>

\* ------------------------------------------------------------------------
\* The render graph nodes.  The graph runs them in the order clear,
\* voxelize, mipmap, once per frame.
\* ------------------------------------------------------------------------
GraphOrder == <<"clear", "voxel", "mipmap", "done">>

NextNode(node) ==
    GraphOrder[(CHOOSE i \in 1..Len(GraphOrder) : GraphOrder[i] = node) + 1]

ClearGate_Open == TRUE

\* VoxelClearPassNode::run: `if !config.enabled { return Ok(()); }`
ClearGate == gi_enabled

VoxelGate_Open == TRUE

\* VoxelPassNode::run: `if !config.enabled { return Ok(()); }`
VoxelGate == gi_enabled

MipmapGate_Open == TRUE

\* MipmapPassNode::run: `if !config.enabled { return Ok(()); }`
MipmapGate == gi_enabled

ClearDispatch(j) ==
    LET count == VOXEL_SIZE \div 8
    IN Dispatch("clear", "clear", j, mipmap_bind_groups[j][1].clear, count, count, count)

ClearCommands ==
    <<Command("clear", "begin_compute_pass")>> \o
    [i \in 1..Len(WithMipmapBindGroup) |-> ClearDispatch(WithMipmapBindGroup[i])]

VoxelClearPassNodeRun ==
    /\ pc = "clear"
    /\ IF ClearGate
       THEN /\ cmds' = cmds \o ClearCommands
            /\ gpu' = GpuAfter(gpu, ClearCommands)
            /\ ran' = ran \cup {"clear"}
       ELSE UNCHANGED <<cmds, gpu, ran>>
    /\ pc' = NextNode("clear")
    /\ UNCHANGED <<render_volumes, view_entity, gi_enabled, resident, visible, phases,
                   mipmap_bind_groups, queue_done>>
    /\ UNCHANGED <<viewVars, visVars, graphVars>>

ViewPassCommands_LastItemFirst(j, view) ==
    <<[Command("voxel", "begin_render_pass") EXCEPT !.volume = j, !.view = view]>> \o
    [i \in 1..Len(phases[view]) |->
        [Command("voxel", "draw") EXCEPT !.volume = j, !.view = view,
                                         !.entity = phases[view][Len(phases[view]) + 1 - i].entity,
                                         !.pipeline = "voxel",
                                         !.bind_group = VoxelBindGroup]]

\* one render pass of VoxelPassNode: begin_render_pass, then every phase item
ViewPassCommands(j, view) ==
    <<[Command("voxel", "begin_render_pass") EXCEPT !.volume = j, !.view = view]>> \o
    [i \in 1..Len(phases[view]) |->
        [Command("voxel", "draw") EXCEPT !.volume = j, !.view = view,
                                         !.entity = phases[view][i].entity,
                                         !.pipeline = "voxel",
                                         !.bind_group = VoxelBindGroup]]

\* `if let Ok(volume) = self.volume_query.get_manual(world, entity)`
VoxelCommands ==
    IF view_entity \in RenderVolumeIds
    THEN Flatten([k \in 1..3 |->
                    ViewPassCommands(view_entity, render_volumes[view_entity].views[k])])
    ELSE <<>>

VoxelPassNodeRun ==
    /\ pc = "voxel"
    /\ IF VoxelGate
       THEN /\ cmds' = cmds \o VoxelCommands
            /\ gpu' = GpuAfter(gpu, VoxelCommands)
            /\ ran' = ran \cup {"voxel"}
       ELSE UNCHANGED <<cmds, gpu, ran>>
    /\ pc' = NextNode("voxel")
    /\ UNCHANGED <<render_volumes, view_entity, gi_enabled, resident, visible, phases,
                   mipmap_bind_groups, queue_done>>
    /\ UNCHANGED <<viewVars, visVars, graphVars>>

FillDispatch(j) ==
    LET count == VOXEL_SIZE \div 8
    IN Dispatch("mipmap", "fill", j, mipmap_bind_groups[j][1].clear, count, count, count)

\* `let size = (VOXEL_SIZE / 2) as u32;`
BaseSize == VOXEL_SIZE \div 2

MipmapBaseDispatch_CountInZ(j) ==
    LET size == BaseSize
        count == Max(size \div 8, 1)
    IN Dispatch("mipmap", "mipmap_base", j, mipmap_bind_groups[j][1].mipmap_base,
                count, count, count)

MipmapBaseDispatch(j) ==
    LET size == BaseSize
        count == Max(size \div 8, 1)
    IN Dispatch("mipmap", "mipmap_base", j, mipmap_bind_groups[j][1].mipmap_base,
                count, count, size)

LevelSize_ShiftOfOne(level) == VOXEL_SIZE \div (2 ^ level)

\* `let size = (VOXEL_SIZE / (2 << level)) as u32;`
LevelSize(level) == VOXEL_SIZE \div (2 * 2 ^ level)

\* the dispatch for entry `index` (from 0) of mipmaps and one direction
MipmapLevelDispatch(j, index, direction) ==
    LET level == index + 1
        size == LevelSize(level)
        count == Max(size \div 8, 1)
    IN [Dispatch("mipmap", "mipmap", j,
                 mipmap_bind_groups[j][1].mipmaps[index + 1][direction + 1],
                 count, count, count)
        EXCEPT !.direction = direction, !.level = level]

MipmapVolumeCommands_SkipsWritten(j) ==
    <<FillDispatch(j), MipmapBaseDispatch(j)>> \o
    (IF gpu[j][Anisotropic(0, 1)] = "never"
     THEN [n \in 1..(6 * Len(mipmap_bind_groups[j][1].mipmaps)) |->
              MipmapLevelDispatch(j, (n - 1) \div 6, (n - 1) % 6)]
     ELSE <<>>)

\* the body of `for mipmap_bind_group in self.query.iter_manual(world)`
MipmapVolumeCommands(j) ==
    <<FillDispatch(j), MipmapBaseDispatch(j)>> \o
    [n \in 1..(6 * Len(mipmap_bind_groups[j][1].mipmaps)) |->
        MipmapLevelDispatch(j, (n - 1) \div 6, (n - 1) % 6)]

MipmapCommands ==
    <<Command("mipmap", "begin_compute_pass")>> \o
    Flatten([i \in 1..Len(WithMipmapBindGroup) |->
                MipmapVolumeCommands(WithMipmapBindGroup[i])])

MipmapPassNodeRun ==
    /\ pc = "mipmap"
    /\ IF MipmapGate
       THEN /\ cmds' = cmds \o MipmapCommands
            /\ gpu' = GpuAfter(gpu, MipmapCommands)
            /\ ran' = ran \cup {"mipmap"}
       ELSE UNCHANGED <<cmds, gpu, ran>>
    /\ pc' = NextNode("mipmap")
    /\ UNCHANGED <<render_volumes, view_entity, gi_enabled, resident, visible, phases,
                   mipmap_bind_groups, queue_done>>
    /\ UNCHANGED <<viewVars, visVars, graphVars>>

\* ------------------------------------------------------------------------
\* Between frames: a Volume reaches the render world, an asset is prepared
\* ------------------------------------------------------------------------
RegisterVolume ==
    /\ pc \in {"idle", "done"}
    /\ Len(render_volumes) < MaxRenderVolumes
    /\ LET j == Len(render_volumes) + 1
       IN /\ render_volumes' = Append(render_volumes, [entity |-> j, views |-> RenderViewIds(j)])
          /\ gpu' = [i \in 1..j |->
                        IF i = j THEN [r \in GpuResources |-> "never"] ELSE gpu[i]]
          /\ mipmap_bind_groups' = [i \in 1..j |-> None]
          /\ visible' = [v \in 1..(3 * j) |-> <<>>]
          /\ phases' = [v \in 1..(3 * j) |-> <<>>]
    /\ pc' = "idle"
    /\ UNCHANGED <<view_entity, gi_enabled, resident, cmds, ran, queue_done>>
    /\ UNCHANGED <<viewVars, visVars, graphVars>>

PrepareAsset ==
    /\ pc \in {"idle", "done"}
    /\ \E asset \in Assets \ resident : resident' = resident \cup {asset}
    /\ pc' = "idle"
    /\ UNCHANGED <<render_volumes, view_entity, gi_enabled, visible, phases,
                   mipmap_bind_groups, cmds, gpu, ran, queue_done>>
    /\ UNCHANGED <<viewVars, visVars, graphVars>>

InitFrame ==
    /\ render_volumes = <<>>
    /\ view_entity = 0
    /\ gi_enabled = TRUE
    /\ resident = {}
    /\ visible = <<>>
    /\ phases = <<>>
    /\ mipmap_bind_groups = <<>>
    /\ cmds = <<>>
    /\ gpu = <<>>
    /\ ran = {}
    /\ queue_done = {}
    /\ pc = "idle"

\* ------------------------------------------------------------------------
\* The "hikari" sub-graph (src/src/lib.rs)
\* ------------------------------------------------------------------------
NAME == "hikari"

VIEW_ENTITY == "view_entity"

PREPASS == "prepass"

MAIN_PASS == "main_pass"

\* the slot both PrepassNode and MainPass3dNode take their view from
IN_VIEW == "view"

\* the node set_input adds to a graph
INPUT_NODE == "GraphInputNode"

\* the view entities a camera driver can pass to the sub-graph
CameraViews == 1..3

SlotEdge(output_node, output_slot, input_node, input_slot) ==
    [output_node |-> output_node, output_slot |-> output_slot,
     input_node |-> input_node, input_slot |-> input_slot]

HikariSlotEdges_MainPassFirst ==
    << SlotEdge(INPUT_NODE, VIEW_ENTITY, MAIN_PASS, IN_VIEW),
       SlotEdge(INPUT_NODE, VIEW_ENTITY, PREPASS, IN_VIEW) >>

\* the two add_slot_edge calls, in the order HikariPlugin::build makes them
HikariSlotEdges ==
    << SlotEdge(INPUT_NODE, VIEW_ENTITY, PREPASS, IN_VIEW),
       SlotEdge(INPUT_NODE, VIEW_ENTITY, MAIN_PASS, IN_VIEW) >>

\* hikari_graph as HikariPlugin::build leaves it: two nodes, the input node,
\* two slot edges and no node edge
HikariGraph ==
    [nodes |-> << [name |-> PREPASS, input_slots |-> <<IN_VIEW>>],
                  [name |-> MAIN_PASS, input_slots |-> <<IN_VIEW>>] >>,
     input_node |-> [name |-> INPUT_NODE, input_slots |-> <<VIEW_ENTITY>>],
     slot_edges |-> HikariSlotEdges,
     node_edges |-> <<>>]

\* graph.add_sub_graph(graph::NAME, hikari_graph)
HikariPluginBuild ==
    /\ graph_pc = "unbuilt"
    /\ hikari_graph' = Some(HikariGraph)
    /\ graph_pc' = "idle"
    /\ UNCHANGED <<node_queue, node_outputs, executions, prepass_output, samples>>
    /\ UNCHANGED <<viewVars, visVars, frameVars>>

\* ------------------------------------------------------------------------
\* RenderGraphRunner::run_graph on the sub-graph
\* ------------------------------------------------------------------------
Edges(graph) == graph.slot_edges \o graph.node_edges

\* iter_node_outputs: the nodes fed by `node`, in the order of its output edges
IterNodeOutputs(graph, node) ==
    LET out == SelectSeq(Edges(graph), LAMBDA e : e.output_node = node)
    IN [i \in 1..Len(out) |-> out[i].input_node]

\* iter_node_inputs: the edges that end in `node`
IterNodeInputs(graph, node) ==
    { Edges(graph)[i] : i \in { n \in 1..Len(Edges(graph)) : Edges(graph)[n].input_node = node } }

\* node_queue.push_front(n) for every n of nodes, in order
RECURSIVE PushFrontAll(_, _)
PushFrontAll(queue, nodes) ==
    IF nodes = <<>> THEN queue
    ELSE PushFrontAll(<<Head(nodes)>> \o queue, Tail(nodes))

\* the nodes without input slots, which the runner queues first
WithoutInputs(graph) ==
    LET free == SelectSeq(graph.nodes, LAMBDA n : n.input_slots = <<>>)
    IN [i \in 1..Len(free) |-> free[i].name]

\* every node an edge of `node` comes from has finished
InputsFinished(graph, node, outputs) ==
    \A e \in IterNodeInputs(graph, node) : e.output_node \in DOMAIN outputs

\* the value a node receives on IN_VIEW
ViewInput(graph, node, outputs) ==
    outputs[(CHOOSE e \in IterNodeInputs(graph, node) : e.input_slot = IN_VIEW).output_node]

\* a driver runs the sub-graph for one view entity: the inputs become the
\* outputs of the input node, and the nodes it feeds are queued
RunSubGraph ==
    /\ graph_pc = "idle"
    /\ executions < MaxExecutions
    /\ \E view \in CameraViews :
          node_outputs' = [n \in {INPUT_NODE} |-> view]
    /\ node_queue' = PushFrontAll(WithoutInputs(hikari_graph[1]),
                                  IterNodeOutputs(hikari_graph[1], INPUT_NODE))
    /\ executions' = executions + 1
    /\ graph_pc' = "running"
    /\ UNCHANGED <<hikari_graph, prepass_output, samples>>
    /\ UNCHANGED <<viewVars, visVars, frameVars>>

\* PrepassNode::run: writes the prepass output for its view
PrepassOutputAfter(node, view) ==
    IF node = PREPASS THEN [execution |-> executions, view |-> view] ELSE prepass_output

\* MainPass3dNode::run: renders its view with the prepass output there is
SamplesAfter(node, view) ==
    IF node = MAIN_PASS
    THEN Append(samples, [execution |-> executions, view |-> view, prepass |-> prepass_output])
    ELSE samples

\* one turn of `while let Some(node_state) = node_queue.pop_back()`
RunGraphNode ==
    /\ graph_pc = "running"
    /\ node_queue # <<>>
    /\ LET graph == hikari_graph[1]
           node == node_queue[Len(node_queue)]
           rest == SubSeq(node_queue, 1, Len(node_queue) - 1)
       IN IF node \in DOMAIN node_outputs
          THEN /\ node_queue' = rest
               /\ UNCHANGED <<node_outputs, prepass_output, samples>>
          ELSE IF ~InputsFinished(graph, node, node_outputs)
          THEN /\ node_queue' = <<node>> \o rest
               /\ UNCHANGED <<node_outputs, prepass_output, samples>>
          ELSE LET view == ViewInput(graph, node, node_outputs)
               IN /\ prepass_output' = PrepassOutputAfter(node, view)
                  /\ samples' = SamplesAfter(node, view)
                  /\ node_outputs' =
                        [n \in DOMAIN node_outputs \cup {node} |->
                            IF n = node THEN view ELSE node_outputs[n]]
                  /\ node_queue' = PushFrontAll(rest, IterNodeOutputs(graph, node))
    /\ graph_pc' = IF node_queue' = <<>> THEN "idle" ELSE "running"
    /\ UNCHANGED <<hikari_graph, executions>>
    /\ UNCHANGED <<viewVars, visVars, frameVars>>

InitGraph ==
    /\ hikari_graph = None
    /\ node_queue = <<>>
    /\ node_outputs = <<>>
    /\ executions = 0
    /\ prepass_output = [execution |-> 0, view |-> 0]
    /\ samples = <<>>
    /\ graph_pc = "unbuilt"

\* ------------------------------------------------------------------------
\* Specification of volume-view initialisation
\* ------------------------------------------------------------------------
InitViews ==
    /\ volumes = <<>>
    /\ view_world = <<>>
    /\ next_entity = 1
    /\ view_passes = 0

Init == InitViews /\ InitVis /\ InitFrame /\ InitGraph

Next ==
    \/ SpawnVolume
    \/ AddVolumeViews

Spec == Init /\ [][Next]_vars

\* ------------------------------------------------------------------------
\* Specification of visibility culling
\* ------------------------------------------------------------------------
NextVis ==
    \/ CheckVisibility
    \/ SetVisibility
    \/ SetEntityLayers
    \/ SetNotGiCaster
    \/ SetAabb
    \/ SetTransform
    \/ MoveEntity
    \/ SetViewLayers

SpecVis == Init /\ [][NextVis]_vars

\* ------------------------------------------------------------------------
\* Specification of the render frames
\* ------------------------------------------------------------------------
NextFrame ==
    \/ RegisterVolume
    \/ PrepareAsset
    \/ Extract
    \/ QueueVoxelMeshes
    \/ QueueMipmapBindGroups
    \/ VoxelClearPassNodeRun
    \/ VoxelPassNodeRun
    \/ MipmapPassNodeRun

SpecFrame == Init /\ [][NextFrame]_vars

\* ------------------------------------------------------------------------
\* Specification of the executions of the "hikari" sub-graph
\* ------------------------------------------------------------------------
NextGraph ==
    \/ HikariPluginBuild
    \/ RunSubGraph
    \/ RunGraphNode

SpecGraph == Init /\ [][NextGraph]_vars

\* ------------------------------------------------------------------------
\* Claims about volume-view initialisation
\* ------------------------------------------------------------------------
ViewsOf(i) == volumes[i].views

\* the half-width of a projection along local axis a (1 = X, 2 = Y, 3 = Z)
ProjectionBound(p, a) == IF a = 1 THEN p.right ELSE IF a = 2 THEN p.top ELSE p.far

ProjectionSymmetric(p) == p.left = -p.right /\ p.bottom = -p.top /\ p.near = -p.far

\* C1: one add_volume_views pass gives every volume that had no views
\* exactly 3 views, and each created projection has right = -left =
\* (max.x - min.x)/2, top = -bottom = (max.y - min.y)/2 and far = -near =
\* (max.z - min.z)/2.  (Stored values are twice the world values, so
\* "bound = (max - min)/2" reads "2 * bound = max - min".)
C1_PassCreatesThreeViews ==
    [][view_passes' = view_passes + 1 =>
        \A i \in 1..Len(volumes) :
            Len(volumes[i].views) = 0 =>
                /\ Len(volumes'[i].views) = 3
                /\ \A k \in 1..3 :
                      /\ volumes'[i].views[k] \in DOMAIN view_world'
                      /\ LET p == view_world'[volumes'[i].views[k]].projection
                         IN /\ ProjectionSymmetric(p)
                            /\ \A a \in 1..3 :
                                  2 * ProjectionBound(p, a) =
                                      volumes[i].max[a] - volumes[i].min[a]]_vars

\* a pass has run and left a volume with three different extents with 3 views
C1_Witness ==
    /\ view_passes >= 1
    /\ \E i \in 1..Len(volumes) :
          /\ Len(ViewsOf(i)) = 3
          /\ volumes[i].max[1] - volumes[i].min[1] # volumes[i].max[2] - volumes[i].min[2]
          /\ volumes[i].max[2] - volumes[i].min[2] # volumes[i].max[3] - volumes[i].min[3]
          /\ view_world[ViewsOf(i)[1]].projection.right > 0

OwnedViews == { i \in 1..Len(volumes) : Len(ViewsOf(i)) # 0 }

\* C2: every views list has length 0 or 3; a list of length 3 is left
\* unchanged by every later step, the entities it names keep their bundles,
\* and the only view entities that exist are the 3 of each volume that has
\* views (a pass over a volume that has views spawns nothing).
C2_ViewsZeroOrThreeAndStable ==
    /\ [](/\ \A i \in 1..Len(volumes) : Len(ViewsOf(i)) \in {0, 3}
          /\ Cardinality(DOMAIN view_world) = 3 * Cardinality(OwnedViews))
    /\ [][\A i \in 1..Len(volumes) :
            Len(volumes[i].views) = 3 =>
                /\ volumes'[i].views = volumes[i].views
                /\ \A k \in 1..3 :
                      view_world'[volumes[i].views[k]] = view_world[volumes[i].views[k]]]_vars

\* volume 1 got its views in the first pass, volume 2 was spawned after it
\* and got its views in the second pass, which ran over volume 1 again
C2_Witness ==
    /\ view_passes = 2
    /\ Len(volumes) = 2
    /\ Len(ViewsOf(1)) = 3
    /\ Len(ViewsOf(2)) = 3
    /\ volumes[2].entity > ViewsOf(1)[3]

\* the world axis (1 = X, 2 = Y, 3 = Z) a local axis points along after the
\* view's rotation
AlignedWorldAxis(rotation, a) == CHOOSE j \in 1..3 : rotation[a][j] # 0

\* C3: for each of the three views of a volume, the projection bound along
\* each local axis equals the volume's half-extent along the world axis that
\* local axis is aligned with after the view's rotation.
C3_BoundsFollowRotation ==
    \A i \in 1..Len(volumes) :
        \A k \in 1..Len(ViewsOf(i)) :
            LET view == view_world[ViewsOf(i)[k]]
            IN /\ view.transform.translation = Vec3Half(Vec3Add(volumes[i].max, volumes[i].min))
               /\ view.transform.rotation = ViewRotations[k]
               /\ \A a \in 1..3 :
                     2 * ProjectionBound(view.projection, a) =
                         LET j == AlignedWorldAxis(view.transform.rotation, a)
                         IN volumes[i].max[j] - volumes[i].min[j]

\* ------------------------------------------------------------------------
\* Claims about visibility culling
\* ------------------------------------------------------------------------
Listed(v, e) == e \in SeqRange(scene_views[v].visible_entities)

\* the entity has an Aabb and a GlobalTransform and its box meets the frustum
BoundsIntersect(v, e) ==
    /\ scene_entities[e].has_aabb
    /\ scene_entities[e].has_transform
    /\ v \in scene_entities[e].in_frustum

\* C4: after every check_visibility pass, an entity whose
\* Visibility.is_visible is false is in no view's VisibleEntities list,
\* whatever its layer mask, bounding box and transform are.
C4_HiddenNeverListed ==
    vis_fresh =>
        \A e \in SceneEntityIds :
            scene_entities[e].visibility = "hidden" =>
                \A v \in SceneViewIds : ~Listed(v, e)

\* a pass has run over a hidden entity whose box meets a frustum and whose
\* mask intersects the view's, while another entity was listed
C4_Witness ==
    /\ vis_fresh
    /\ \E e \in SceneEntityIds, v \in SceneViewIds :
          /\ scene_entities[e].visibility = "hidden"
          /\ ~scene_entities[e].not_gi_caster
          /\ BoundsIntersect(v, e)
          /\ scene_entities[e].layers = None
          /\ scene_views[v].layers = None
          /\ \E f \in SceneEntityIds : Listed(v, f)

\* C5: after every check_visibility pass, an entity carrying NotGiCaster is
\* in no view's VisibleEntities list, even when it is marked visible, its
\* mask intersects the view's and its bounds intersect the frustum.
C5_NotGiCasterNeverListed ==
    vis_fresh =>
        \A e \in SceneEntityIds :
            scene_entities[e].not_gi_caster =>
                \A v \in SceneViewIds : ~Listed(v, e)

\* a pass has run over a visible NotGiCaster entity that passes the layer
\* and frustum tests of a view
C5_Witness ==
    /\ vis_fresh
    /\ \E e \in SceneEntityIds, v \in SceneViewIds :
          /\ scene_entities[e].not_gi_caster
          /\ scene_entities[e].visibility = "visible"
          /\ BoundsIntersect(v, e)
          /\ scene_entities[e].layers = None
          /\ scene_views[v].layers = None
          /\ \E f \in SceneEntityIds : Listed(v, f)

\* C6: after every check_visibility pass, ComputedVisibility.is_visible of
\* an entity is true if and only if the entity is in the VisibleEntities
\* list of at least one volume view.
C6_ComputedIffListed ==
    vis_fresh =>
        \A e \in SceneEntityIds :
            scene_entities[e].computed <=> \E v \in SceneViewIds : Listed(v, e)

\* after a pass one entity is listed by exactly one view and marked visible,
\* and another entity, hidden by the application, is marked not visible
C6_Witness ==
    /\ vis_fresh
    /\ \E e \in SceneEntityIds :
          /\ scene_entities[e].computed
          /\ Cardinality({ v \in SceneViewIds : Listed(v, e) }) = 1
    /\ \E e \in SceneEntityIds :
          /\ scene_entities[e].visibility = "hidden"
          /\ ~scene_entities[e].computed

\* the pair passes every test of the loop body other than the layer test
PassesOtherChecks(v, e) ==
    /\ scene_entities[e].visibility = "visible"
    /\ ~scene_entities[e].not_gi_caster
    /\ (scene_entities[e].has_aabb /\ scene_entities[e].has_transform)
          => v \in scene_entities[e].in_frustum

NonEmptyOrMissing(maybe_mask) == maybe_mask = None \/ maybe_mask[1] # {}

HasLayerZero(maybe_mask) == maybe_mask = None \/ 0 \in maybe_mask[1]

\* C7 (as stated): when the view or the entity has no RenderLayers, the
\* missing mask counts as "all layers", so the layer test passes against
\* every non-empty mask of the other side.
C7_MissingMaskIsAllLayers ==
    vis_fresh =>
        \A v \in SceneViewIds, e \in SceneEntityIds :
            ( /\ PassesOtherChecks(v, e)
              /\ \/ scene_views[v].layers = None /\ NonEmptyOrMissing(scene_entities[e].layers)
                 \/ scene_entities[e].layers = None /\ NonEmptyOrMissing(scene_views[v].layers) )
            => Listed(v, e)

\* C7 (amended): when the view or the entity has no RenderLayers, the
\* missing mask counts as RenderLayers::default(), which is layer 0 only:
\* the layer test passes exactly when the other side's mask is missing too
\* or contains layer 0.
C7_MissingMaskIsLayerZero ==
    vis_fresh =>
        \A v \in SceneViewIds, e \in SceneEntityIds :
            PassesOtherChecks(v, e) =>
                /\ scene_views[v].layers = None =>
                      (Listed(v, e) <=> HasLayerZero(scene_entities[e].layers))
                /\ scene_entities[e].layers = None =>
                      (Listed(v, e) <=> HasLayerZero(scene_views[v].layers))

\* after a pass, a view without a mask has rejected a visible entity whose
\* explicit mask is non-empty but lacks layer 0, and has accepted one whose
\* explicit mask contains layer 0
C7_Witness ==
    /\ vis_fresh
    /\ \E v \in SceneViewIds, e, f \in SceneEntityIds :
          /\ scene_views[v].layers = None
          /\ PassesOtherChecks(v, e)
          /\ scene_entities[e].layers # None
          /\ scene_entities[e].layers[1] # {}
          /\ 0 \notin scene_entities[e].layers[1]
          /\ ~Listed(v, e)
          /\ PassesOtherChecks(v, f)
          /\ scene_entities[f].layers # None
          /\ 0 \in scene_entities[f].layers[1]
          /\ Listed(v, f)

\* ------------------------------------------------------------------------
\* Claims about the render frames
\* ------------------------------------------------------------------------
InFrame == pc \in {"queue", "clear", "voxel", "mipmap", "done"}

AllNodes == {"clear", "voxel", "mipmap"}

\* the positions in cmds of the commands of one node for one volume
CommandsOf(node, j) ==
    { i \in 1..Len(cmds) : cmds[i].node = node /\ cmds[i].volume = j }

\* C8: in a frame where GiConfig.enabled is false, queue_voxel_meshes adds no
\* phase item, the three nodes begin no pass and issue no draw and no
\* dispatch, and no voxel texture, voxel buffer or mip level is written, so
\* they keep the contents an earlier frame left.
C8_DisabledFrameSubmitsNothing ==
    (InFrame /\ ~gi_enabled) =>
        /\ \A v \in AllRenderViews : phases[v] = <<>>
        /\ cmds = <<>>
        /\ \A j \in RenderVolumeIds : \A r \in GpuResources : gpu[j][r] # "current"

\* a disabled frame has finished for a volume on the view slot whose textures
\* an earlier enabled frame wrote, with bind groups queued and with a visible
\* entity whose assets are resident
C8_Witness ==
    /\ pc = "done"
    /\ ~gi_enabled
    /\ view_entity \in RenderVolumeIds
    /\ mipmap_bind_groups[view_entity] # None
    /\ gpu[view_entity][VoxelTexture] = "previous"
    /\ gpu[view_entity][Anisotropic(0, 1)] = "previous"
    /\ \E k \in 1..3 :
          \E i \in 1..Len(visible[render_volumes[view_entity].views[k]]) :
              AssetsResident(visible[render_volumes[view_entity].views[k]][i])

\* C9: in every frame the three stages are all executed or all skipped: at
\* the end of the frame either every node went past its GiConfig test or
\* none did, and only nodes that did have encoded commands.
C9_AllStagesOrNone ==
    /\ pc = "done" => ran \in {{}, AllNodes}
    /\ \A i \in 1..Len(cmds) : cmds[i].node \in ran

\* an enabled frame has finished in which each of the three nodes encoded
\* work for the volume on the view slot
C9_Witness ==
    /\ pc = "done"
    /\ ran = AllNodes
    /\ view_entity \in RenderVolumeIds
    /\ \A node \in AllNodes :
          \E i \in CommandsOf(node, view_entity) : cmds[i].op \in {"dispatch", "draw"}

\* C10: in every frame with GI enabled, for every registered volume the
\* three stages are submitted exactly once each (one clear dispatch, one
\* render pass per view, one fill and one mipmap_base dispatch), every
\* voxelization command of the volume comes after its clear and every mip
\* dispatch of the volume comes after its voxelization.
C10_EveryVolumeClearVoxelizeMipmapOnce ==
    (pc = "done" /\ gi_enabled) =>
        \A j \in { v \in RenderVolumeIds : mipmap_bind_groups[v] # None } :
            /\ Cardinality(CommandsOf("clear", j)) = 1
            /\ \A k \in 1..3 :
                  Cardinality({ i \in CommandsOf("voxel", j) :
                                  /\ cmds[i].op = "begin_render_pass"
                                  /\ cmds[i].view = render_volumes[j].views[k] }) = 1
            /\ Cardinality({ i \in CommandsOf("mipmap", j) : cmds[i].pipeline = "fill" }) = 1
            /\ Cardinality({ i \in CommandsOf("mipmap", j) : cmds[i].pipeline = "mipmap_base" }) = 1
            /\ \A c \in CommandsOf("clear", j), d \in CommandsOf("voxel", j) : c < d
            /\ \A d \in CommandsOf("voxel", j), m \in CommandsOf("mipmap", j) : d < m

\* ------------------------------------------------------------------------
\* Claims about the "hikari" sub-graph
\* ------------------------------------------------------------------------
\* the slot edge from the graph's input slot to the IN_VIEW slot of `node`
FedByViewEntity(graph, node) ==
    \E i \in 1..Len(graph.slot_edges) :
        graph.slot_edges[i] = SlotEdge(graph.input_node.name, VIEW_ENTITY, node, IN_VIEW)

\* C11: in the built "hikari" sub-graph the view-entity input slot feeds both
\* the prepass node and the main 3D pass node, and in every execution of the
\* sub-graph the prepass node has finished, for the same view entity, before
\* the main pass node runs: the main pass never finds the output of an
\* earlier execution or none at all.
C11_PrepassBeforeMainPass ==
    /\ hikari_graph # None =>
          /\ FedByViewEntity(hikari_graph[1], PREPASS)
          /\ FedByViewEntity(hikari_graph[1], MAIN_PASS)
    /\ \A i \in 1..Len(samples) :
          /\ samples[i].prepass.execution = samples[i].execution
          /\ samples[i].prepass.view = samples[i].view
    /\ (graph_pc = "idle" /\ executions > 0) =>
          /\ Len(samples) = executions
          /\ prepass_output.execution = executions

\* two executions for different view entities have finished, each with a
\* main pass that ran
C11_Witness ==
    /\ graph_pc = "idle"
    /\ executions >= 2
    /\ Len(samples) >= 2
    /\ samples[1].view # samples[2].view
    /\ samples[2].prepass.view = samples[2].view

\* ------------------------------------------------------------------------
\* Claims about the mip pyramid
\* ------------------------------------------------------------------------
\* the volumes MipmapPassNode and VoxelClearPassNode iterate over
BoundVolumes == { j \in RenderVolumeIds : mipmap_bind_groups[j] # None }

\* the positions of the dispatches MipmapPassNode encoded for volume j
MipmapDispatches(j) == { i \in CommandsOf("mipmap", j) : cmds[i].op = "dispatch" }

\* the positions of the dispatches for level k of the chain of direction d
LevelDispatches(j, k, d) ==
    { i \in MipmapDispatches(j) :
        cmds[i].pipeline = "mipmap" /\ cmds[i].level = k /\ cmds[i].direction = d }

\* C12: at the end of every frame with GI enabled, for every volume that has
\* a MipmapBindGroup, MipmapPassNode has issued one fill dispatch, one
\* mipmap_base dispatch and one dispatch for every level 1..LEVEL_COUNT-1
\* and every direction 0..5, that is 2 + 6*(LEVEL_COUNT-1) dispatches,
\* whatever earlier frames wrote.
C12_WholePyramidEveryFrame ==
    (pc = "done" /\ gi_enabled) =>
        \A j \in BoundVolumes :
            /\ Cardinality(MipmapDispatches(j)) =
                   2 + 6 * (VOXEL_ANISOTROPIC_MIPMAP_LEVEL_COUNT - 1)
            /\ Cardinality({ i \in MipmapDispatches(j) : cmds[i].pipeline = "fill" }) = 1
            /\ Cardinality({ i \in MipmapDispatches(j) : cmds[i].pipeline = "mipmap_base" }) = 1
            /\ \A k \in 1..(VOXEL_ANISOTROPIC_MIPMAP_LEVEL_COUNT - 1), d \in Directions :
                  Cardinality(LevelDispatches(j, k, d)) = 1

\* an enabled frame has finished in which the coarsest level of the last
\* direction was written for each of two volumes
C12_Witness ==
    /\ pc = "done"
    /\ gi_enabled
    /\ Cardinality(BoundVolumes) = 2
    /\ \A j \in BoundVolumes :
          /\ gpu[j][Anisotropic(5, VOXEL_ANISOTROPIC_MIPMAP_LEVEL_COUNT - 1)] = "current"
          /\ Cardinality(MipmapDispatches(j)) > 2

\* the edge length MipmapPassNode uses for level k of a chain
Size(k) == IF k = 0 THEN BaseSize ELSE LevelSize(k)

LastLevel == VOXEL_ANISOTROPIC_MIPMAP_LEVEL_COUNT - 1

\* the edge length of level k as the claim gives it: VOXEL_SIZE / 2^(k+1)
EdgeLength(k) == VOXEL_SIZE \div (2 ^ (k + 1))

\* C13: the edge length MipmapPassNode uses for level k is VOXEL_SIZE /
\* 2^(k+1), level k+1 has exactly half the edge length of level k for every
\* k below the last level, and the dispatch count of every level, the
\* coarsest included, is max(size(k)/8, 1) and at least 1 on each axis.
C13_SizeHalvesCountAtLeastOne ==
    /\ \A k \in 0..LastLevel :
          Size(k) = EdgeLength(k) /\ EdgeLength(k) * 2 ^ (k + 1) = VOXEL_SIZE
    /\ \A k \in 0..(LastLevel - 1) : 2 * Size(k + 1) = Size(k)
    /\ \A i \in 1..Len(cmds) :
          /\ cmds[i].pipeline = "mipmap" =>
                LET count == Max(EdgeLength(cmds[i].level) \div 8, 1)
                IN cmds[i].groups = <<count, count, count>> /\ count >= 1
          /\ cmds[i].pipeline = "mipmap_base" =>
                /\ cmds[i].groups[1] = Max(EdgeLength(0) \div 8, 1)
                /\ \A a \in 1..3 : cmds[i].groups[a] >= 1

\* a frame has finished with a dispatch of 8 groups per axis for level 1 and
\* a dispatch of 1 group per axis for the coarsest level, whose edge length
\* is below 8
C13_Witness ==
    /\ pc = "done"
    /\ Size(LastLevel) < 8
    /\ \E i, n \in 1..Len(cmds) :
          /\ cmds[i].pipeline = "mipmap" /\ cmds[i].level = 1
          /\ cmds[i].groups = <<8, 8, 8>>
          /\ cmds[n].pipeline = "mipmap" /\ cmds[n].level = LastLevel
          /\ cmds[n].groups = <<1, 1, 1>>

\* the positions of the mipmap_base dispatches of the frame
BaseDispatches == { i \in 1..Len(cmds) : cmds[i].pipeline = "mipmap_base" }

\* C14 (as stated): the group counts of the mipmap_base dispatch are
\* (max(VOXEL_SIZE/16, 1), max(VOXEL_SIZE/16, 1), max(VOXEL_SIZE/8, 1)):
\* groups of 8x8x8 threads over VOXEL_SIZE/2 texels in X and Y and over
\* VOXEL_SIZE texels in Z.
C14_BaseCoversFullZ ==
    \A i \in BaseDispatches :
        cmds[i].groups = << Max(VOXEL_SIZE \div 16, 1),
                            Max(VOXEL_SIZE \div 16, 1),
                            Max(VOXEL_SIZE \div 8, 1) >>

\* C14 (amended): the group counts of the mipmap_base dispatch are
\* (max(VOXEL_SIZE/16, 1), max(VOXEL_SIZE/16, 1), VOXEL_SIZE/2): one group
\* per 8 texels of the half resolution in X and in Y, and in Z as many
\* groups as the half resolution has texels.
C14_BaseGroupCounts ==
    \A i \in BaseDispatches :
        cmds[i].groups = << Max(VOXEL_SIZE \div 16, 1),
                            Max(VOXEL_SIZE \div 16, 1),
                            VOXEL_SIZE \div 2 >>

\* MipmapPassNode has encoded a mipmap_base dispatch whose Z count differs
\* from its X count
C14_Witness ==
    /\ "mipmap" \in ran
    /\ \E i \in BaseDispatches :
          /\ cmds[i].bind_group = MipmapBaseBindGroup
          /\ cmds[i].groups[3] # cmds[i].groups[1]

\* ------------------------------------------------------------------------
\* Claims about the clear and fill stages
\* ------------------------------------------------------------------------
\* a bound view gives access to resource r: the view is r itself or the
\* default view of r's texture, which spans all its levels
Covers(bound, r) ==
    \/ bound = r
    \/ /\ bound.kind = "anisotropic" /\ r.kind = "anisotropic"
       /\ bound.direction = r.direction /\ bound.level = -1

\* the command's bind group lets it write resource r
CanWrite(cmd, r) == \E bound \in WrittenBy(cmd) : Covers(bound, r)

ClearDispatches(j) == { i \in CommandsOf("clear", j) : cmds[i].op = "dispatch" }

FillDispatches(j) == { i \in CommandsOf("mipmap", j) : cmds[i].pipeline = "fill" }

ClearGeometry == << VOXEL_SIZE \div 8, VOXEL_SIZE \div 8, VOXEL_SIZE \div 8 >>

\* C15 (as stated): for every volume the clear stage is one dispatch of
\* VOXEL_SIZE/8 groups per axis whose bound resources let it write level 0
\* of all 6 directional chains, and the fill dispatch has the same geometry.
C15_ClearZeroesSixDirections ==
    (pc = "done" /\ gi_enabled) =>
        \A j \in BoundVolumes :
            /\ Cardinality(ClearDispatches(j)) = 1
            /\ \A i \in ClearDispatches(j) :
                  /\ cmds[i].groups = ClearGeometry
                  /\ \A d \in Directions : CanWrite(cmds[i], Anisotropic(d, 0))
            /\ \A i \in FillDispatches(j) : cmds[i].groups = ClearGeometry

\* C15 (amended): for every volume the clear stage is one dispatch of
\* VOXEL_SIZE/8 groups per axis whose bound resources let it write the
\* voxel texture and the voxel buffer and no level of any directional chain
\* (the texture of direction 0 is bound for reading only, those of
\* directions 1..5 are not bound); the fill dispatch has the same bind group
\* and the same geometry.
C15_ClearZeroesVoxelTexture ==
    (pc = "done" /\ gi_enabled) =>
        \A j \in BoundVolumes :
            /\ Cardinality(ClearDispatches(j)) = 1
            /\ \A i \in ClearDispatches(j) :
                  /\ cmds[i].groups = ClearGeometry
                  /\ CanWrite(cmds[i], VoxelTexture)
                  /\ CanWrite(cmds[i], VoxelBuffer)
                  /\ \A d \in Directions :
                        \A l \in 0..(VOXEL_ANISOTROPIC_MIPMAP_LEVEL_COUNT - 1) :
                            ~CanWrite(cmds[i], Anisotropic(d, l))
                  /\ \A n \in FillDispatches(j) :
                        /\ cmds[n].groups = cmds[i].groups
                        /\ cmds[n].bind_group = cmds[i].bind_group
            /\ Cardinality(FillDispatches(j)) = 1

\* an enabled frame has finished with a clear and a fill dispatch for a
\* volume whose voxel texture was written in this frame
C15_Witness ==
    /\ pc = "done"
    /\ gi_enabled
    /\ \E j \in BoundVolumes :
          /\ ClearDispatches(j) # {}
          /\ FillDispatches(j) # {}
          /\ gpu[j][VoxelTexture] = "current"
          /\ \E i \in ClearDispatches(j) :
                \E entry \in cmds[i].bind_group :
                    entry.binding = 0 /\ entry.resource = Anisotropic(0, -1)

\* ------------------------------------------------------------------------
\* Claims about phase items
\* ------------------------------------------------------------------------
\* queue_voxel_meshes has run in the current frame
MeshesQueued == InFrame /\ "meshes" \in queue_done

\* the positions of the phase items of view v that name entity e
ItemsOf(v, e) == { i \in 1..Len(phases[v]) : phases[v][i].entity = e }

IsVisibleIn(v, e) == \E i \in 1..Len(visible[v]) : visible[v][i] = e

BothAssetsIn(assets, e) == <<"material", e>> \in assets /\ <<"mesh", e>> \in assets

\* C16: in every enabled frame, once queue_voxel_meshes has run, a visible
\* entity whose material or mesh is not resident has no phase item in the
\* view, and every visible entity of the view with both assets resident has
\* exactly one; this holds anew in each frame, so an entity skipped in one
\* frame has its item in the first later enabled frame in which both assets
\* are resident and it is still visible.  No frame stops at the skip: the
\* frame goes on to the graph nodes.
C16_MissingAssetSkipped ==
    (MeshesQueued /\ gi_enabled) =>
        \A v \in AllRenderViews :
            \A e \in MeshEntities :
                Cardinality(ItemsOf(v, e)) =
                    IF IsVisibleIn(v, e) /\ BothAssetsIn(resident, e) THEN 1 ELSE 0

\* an enabled frame has reached its end in which a view lists two entities,
\* one with both assets resident and one phase item, the other with its
\* material resident but not its mesh and without phase item
C16_Witness ==
    /\ pc = "done"
    /\ gi_enabled
    /\ \E v \in AllRenderViews, e, f \in MeshEntities :
          /\ IsVisibleIn(v, e) /\ IsVisibleIn(v, f)
          /\ BothAssetsIn(resident, e)
          /\ Cardinality(ItemsOf(v, e)) = 1
          /\ <<"material", f>> \in resident
          /\ <<"mesh", f>> \notin resident
          /\ ItemsOf(v, f) = {}

\* ------------------------------------------------------------------------
\* Claims about the ownership of view entities
\* ------------------------------------------------------------------------
ViewSet(i) == { ViewsOf(i)[k] : k \in 1..Len(ViewsOf(i)) }

\* C17: after any sequence of volume creations and add_volume_views passes,
\* the view entities of a volume are pairwise distinct and no view entity is
\* in the views lists of two different volumes.
C17_ViewsDistinctAndUnshared ==
    /\ \A i \in 1..Len(volumes) :
          \A k, l \in 1..Len(ViewsOf(i)) : k # l => ViewsOf(i)[k] # ViewsOf(i)[l]
    /\ \A i, j \in 1..Len(volumes) : i # j => ViewSet(i) \cap ViewSet(j) = {}

\* two volumes got their views in one and the same pass, and a later pass
\* has run over both
C17_Witness ==
    /\ view_passes = 2
    /\ Len(volumes) = 2
    /\ Cardinality(ViewSet(1)) = 3
    /\ Cardinality(ViewSet(2)) = 3
    /\ ViewsOf(1)[1] > volumes[2].entity

\* ------------------------------------------------------------------------
\* Claims about the contents of VisibleEntities
\* ------------------------------------------------------------------------
\* the mask check_visibility works with: the RenderLayers of the entity or
\* view, layer 0 when it has none
EffectiveMask(maybe_mask) == IF maybe_mask = None THEN {0} ELSE maybe_mask[1]

\* how often entity e is in the list of view v
TimesListed(v, e) ==
    Cardinality({ i \in 1..Len(scene_views[v].visible_entities) :
                    scene_views[v].visible_entities[i] = e })

\* C18: after every check_visibility pass, the VisibleEntities list of each
\* volume view contains exactly the entities without NotGiCaster that are
\* marked visible, whose layer mask intersects the view's mask, and that lack
\* an Aabb or a GlobalTransform or have a box intersecting the view's
\* frustum; each of them once, and nothing else (nothing left over from an
\* earlier pass).
C18_ListIsExactlyThePassingEntities ==
    vis_fresh =>
        \A v \in SceneViewIds, e \in SceneEntityIds :
            TimesListed(v, e) =
                IF /\ ~scene_entities[e].not_gi_caster
                   /\ scene_entities[e].visibility = "visible"
                   /\ EffectiveMask(scene_entities[e].layers)
                         \cap EffectiveMask(scene_views[v].layers) # {}
                   /\ \/ ~scene_entities[e].has_aabb
                      \/ ~scene_entities[e].has_transform
                      \/ v \in scene_entities[e].in_frustum
                THEN 1 ELSE 0

\* after a pass a view lists an entity that has no Aabb and lies outside the
\* view's frustum, next to an entity whose box intersects the frustum
C18_Witness ==
    /\ vis_fresh
    /\ \E v \in SceneViewIds, e, f \in SceneEntityIds :
          /\ ~scene_entities[e].has_aabb
          /\ v \notin scene_entities[e].in_frustum
          /\ TimesListed(v, e) = 1
          /\ BoundsIntersect(v, f)
          /\ TimesListed(v, f) = 1

\* ------------------------------------------------------------------------
\* Claims about the order of the mip dispatches
\* ------------------------------------------------------------------------
\* the resource a command's bind group binds at a binding
BoundAt(cmd, binding) ==
    { entry.resource : entry \in { b \in cmd.bind_group : b.binding = binding } }

\* C19: at the end of every enabled frame, for every volume with a
\* MipmapBindGroup, every level k in 1..LEVEL_COUNT-1 and every direction d
\* there is a dispatch of pipeline d that reads level k-1 of chain d
\* (binding 0) and writes level k of chain d (binding 1), and an earlier
\* dispatch of the same frame wrote level k-1 of chain d: mipmap_base for
\* k = 1, the dispatch of (k-1, d) otherwise.
C19_LevelReadsWhatWasWritten ==
    (pc = "done" /\ gi_enabled) =>
        \A j \in BoundVolumes :
            \A k \in 1..(VOXEL_ANISOTROPIC_MIPMAP_LEVEL_COUNT - 1), d \in Directions :
                /\ LevelDispatches(j, k, d) # {}
                /\ \A i \in LevelDispatches(j, k, d) :
                      /\ BoundAt(cmds[i], 0) = { Anisotropic(d, k - 1) }
                      /\ BoundAt(cmds[i], 1) = { Anisotropic(d, k) }
                      /\ Anisotropic(d, k) \in WrittenBy(cmds[i])
                      /\ \E w \in MipmapDispatches(j) :
                            /\ w < i
                            /\ Anisotropic(d, k - 1) \in WrittenBy(cmds[w])
                            /\ IF k = 1
                               THEN cmds[w].pipeline = "mipmap_base"
                               ELSE w \in LevelDispatches(j, k - 1, d)

\* an enabled frame has finished in which, for the second of two volumes,
\* the dispatch of the coarsest level of direction 5 read the level before it
C19_Witness ==
    /\ pc = "done"
    /\ gi_enabled
    /\ 2 \in BoundVolumes
    /\ \E i \in LevelDispatches(2, LastLevel, 5) :
          /\ Anisotropic(5, LastLevel - 1) \in BoundAt(cmds[i], 0)
          /\ \E w \in LevelDispatches(2, LastLevel - 1, 5) : w < i

\* ------------------------------------------------------------------------
\* Claims about the voxelization pass
\* ------------------------------------------------------------------------
\* the positions at which VoxelPassNode began a render pass
RenderPasses == { i \in 1..Len(cmds) : cmds[i].op = "begin_render_pass" }

\* the entities drawn inside the render pass begun at position b, in order:
\* the draws that follow b up to the next command that is not a draw
DrawnIn(b) ==
    LET n == CHOOSE n \in 0..(Len(cmds) - b) :
                 /\ \A m \in 1..n : cmds[b + m].op = "draw"
                 /\ b + n + 1 <= Len(cmds) => cmds[b + n + 1].op # "draw"
    IN [m \in 1..n |-> cmds[b + m].entity]

\* the entities of the phase items of a view, in the order they were queued
QueuedFor(view) == [n \in 1..Len(phases[view]) |-> phases[view][n].entity]

\* C20: at the end of an enabled frame in which VoxelPassNode ran for a
\* volume, the node has begun exactly 3 render passes, one per view of that
\* volume, and the draws inside the pass of a view are the phase items
\* queued for that view, each once and in the order they were queued; no
\* draw lies outside these passes.
C20_OnePassPerViewItemsInQueueOrder ==
    (pc = "done" /\ gi_enabled /\ view_entity \in RenderVolumeIds) =>
        /\ Cardinality(RenderPasses) = 3
        /\ \A k \in 1..3 :
              LET view == render_volumes[view_entity].views[k]
              IN /\ Cardinality({ b \in RenderPasses : cmds[b].view = view }) = 1
                 /\ \A b \in RenderPasses :
                       cmds[b].view = view => DrawnIn(b) = QueuedFor(view)
        /\ Cardinality({ i \in 1..Len(cmds) : cmds[i].op = "draw" }) =
               Len(phases[render_volumes[view_entity].views[1]])
               + Len(phases[render_volumes[view_entity].views[2]])
               + Len(phases[render_volumes[view_entity].views[3]])

\* an enabled frame has finished for a volume one of whose views had two
\* phase items queued, entity 2 before entity 1, and another view a single
\* item; all were drawn
C20_Witness ==
    /\ pc = "done"
    /\ gi_enabled
    /\ view_entity \in RenderVolumeIds
    /\ \E k, l \in 1..3 :
          /\ QueuedFor(render_volumes[view_entity].views[k]) = <<2, 1>>
          /\ Len(phases[render_volumes[view_entity].views[l]]) = 1
    /\ \E b \in RenderPasses : DrawnIn(b) = <<2, 1>>

====
